---- MODULE Spec2Model ----
(***************************************************************************)
(* Model of the chairman statistics core (src/src/chairman/core.py) and of *)
(* the team aggregation and comparison steps of streamlit_app.py.          *)
(*                                                                         *)
(* Strings are sequences of one-character strings.  Floating-point values  *)
(* are exact fractions <<numerator, denominator>> in lowest terms.         *)
(***************************************************************************)
EXTENDS Integers, Sequences, FiniteSets, TLC

VARIABLES
    \* --- season normalizer ---
    pcS,            \* position of the normalizer run: "input" | "once" | "twice"
    season,         \* the season string handed to _normalize_nba_season
    normalized,     \* _normalize_nba_season(season)
    renormalized,   \* _normalize_nba_season(normalized)
    \* --- player resolver ---
    pcP,            \* "index" | "searched" | "found"
    matches,        \* what static_players.find_players_by_full_name returned
    query,          \* the name (fragment) the caller typed
    search_result,  \* search_players(query)
    find_result,    \* find_player_id(query): an id or the ValueError raised

    \* --- one call of last_n_averages / _last_n_averages_by_id ---
    pc,             \* position of the call
    call,           \* the entry point called
    player_id,      \* the primary provider's player id
    n,              \* window size
    full_name,      \* display name, NoName when the caller gave none
    gl,             \* the primary provider's response object
    tried,          \* response shapes _extract_gamelog_rows has tried, in order
    games,          \* rows extracted from gl
    primary_error,  \* the exception the primary path raised, NoError if none
    bdl_players,    \* the secondary provider's answer to the player search
    bdl_stats,      \* the secondary provider's answer to the stats request
    contacted,      \* providers contacted so far, in order
    result,         \* what the call returned or raised
    \* --- team aggregation ---
    roster,         \* list of (player_id, full_name)
    responses,      \* the primary provider's response to each roster entry's request
    totals,         \* the eleven running sums
    team_out,       \* the team summary returned
    warnings,       \* the UI variant's list of skipped players
    \* --- the "Fetch & Compare" button handler ---
    pcU,            \* "button" | "warned" | "compared"
    team1,          \* session_state.team1
    team2,          \* session_state.team2
    player_logs,    \* the primary provider's response for each player id
    stats1,         \* team summary of team1
    stats2,         \* team summary of team2
    warn1,          \* warnings of team1
    warn2,          \* warnings of team2
    table_rows,     \* the comparison table (rows)
    my_wins,        \* categories led by team1
    opp_wins,       \* categories led by team2
    verdict         \* the conclusion shown

varsS == <<pcS, season, normalized, renormalized>>
varsP == <<pcP, matches, query, search_result, find_result>>

varsC == <<pc, call, player_id, n, full_name, gl, tried, games, primary_error,
           bdl_players, bdl_stats, contacted, result>>

varsT == <<roster, responses, totals, team_out, warnings>>

varsU == <<pcU, team1, team2, player_logs, stats1, stats2, warn1, warn2,
           table_rows, my_wins, opp_wins, verdict>>

vars == <<varsS, varsP, varsC, varsT, varsU>>

(***************************************************************************)
(* Bounds                                                                  *)
(***************************************************************************)
MaxSegLen == 4      \* longest start/end segment of an enumerated season string
MaxMatches == 3     \* longest match list the name index returns
MaxGames == 3       \* most games a provider returns for a player
MaxWindow == 3      \* largest window size N asked for
MaxRoster == 2      \* longest roster aggregated

(***************************************************************************)
(* Generic helpers                                                         *)
(***************************************************************************)
Min(a, b) == IF a <= b THEN a ELSE b
Max(a, b) == IF a >= b THEN a ELSE b

RECURSIVE SeqsUpTo(_, _)
\* all sequences over S of length 0..k
SeqsUpTo(S, k) ==
    IF k = 0 THEN {<<>>}
    ELSE LET shorter == SeqsUpTo(S, k - 1)
         IN  shorter \cup {Append(q, c) : q \in {r \in shorter : Len(r) = k - 1}, c \in S}

(***************************************************************************)
(* Python string primitives used by the season normalizer                  *)
(***************************************************************************)
DigitChars == {"0", "1", "2", "3", "4", "5", "6", "7", "8", "9"}

DigitVal(c) ==
    CASE c = "0" -> 0 [] c = "1" -> 1 [] c = "2" -> 2 [] c = "3" -> 3
      [] c = "4" -> 4 [] c = "5" -> 5 [] c = "6" -> 6 [] c = "7" -> 7
      [] c = "8" -> 8 [] c = "9" -> 9

DigitChar(d) ==
    CASE d = 0 -> "0" [] d = 1 -> "1" [] d = 2 -> "2" [] d = 3 -> "3"
      [] d = 4 -> "4" [] d = 5 -> "5" [] d = 6 -> "6" [] d = 7 -> "7"
      [] d = 8 -> "8" [] d = 9 -> "9"

RECURSIVE LStrip(_)
LStrip(s) == IF s # <<>> /\ Head(s) = " " THEN LStrip(Tail(s)) ELSE s

RECURSIVE RStrip(_)
RStrip(s) ==
    IF s # <<>> /\ s[Len(s)] = " " THEN RStrip(SubSeq(s, 1, Len(s) - 1)) ELSE s

\* str.strip()
Strip(s) == RStrip(LStrip(s))

\* "-" in s
HasDash(s) == \E i \in 1..Len(s) : s[i] = "-"

FirstDash(s) == CHOOSE i \in 1..Len(s) : s[i] = "-" /\ \A j \in 1..(i - 1) : s[j] # "-"

\* s.split("-", 1)[0] and s.split("-", 1)[1], for a string that holds a "-"
SplitHead(s) == SubSeq(s, 1, FirstDash(s) - 1)
SplitTail(s) == SubSeq(s, FirstDash(s) + 1, Len(s))

\* s[:k]
Take(s, k) == SubSeq(s, 1, Min(k, Len(s)))

\* s[-2:]
LastTwo(s) == SubSeq(s, Max(1, Len(s) - 1), Len(s))

AllDigits(s) == \A i \in 1..Len(s) : s[i] \in DigitChars

\* int(x) succeeds: an optional sign followed by at least one digit.  (The
\* enumerated strings hold no inner blank, "+" or "_", so the other literals
\* int() accepts do not arise.)
IsIntLiteral(x) ==
    IF x # <<>> /\ Head(x) = "-"
    THEN Len(x) >= 2 /\ AllDigits(Tail(x))
    ELSE x # <<>> /\ AllDigits(x)

RECURSIVE DigitsValue(_)
DigitsValue(x) ==
    IF x = <<>> THEN 0
    ELSE 10 * DigitsValue(SubSeq(x, 1, Len(x) - 1)) + DigitVal(x[Len(x)])

\* int(x) for an x with IsIntLiteral(x)
IntOf(x) == IF Head(x) = "-" THEN 0 - DigitsValue(Tail(x)) ELSE DigitsValue(x)

RECURSIVE NatStr(_)
NatStr(k) == IF k < 10 THEN <<DigitChar(k)>> ELSE Append(NatStr(k \div 10), DigitChar(k % 10))

\* str(k)
StrOf(k) == IF k < 0 THEN <<"-">> \o NatStr(0 - k) ELSE NatStr(k)

\* format(k, "02d") for k >= 0
Fmt02d(k) == IF k < 10 THEN <<"0">> \o NatStr(k) ELSE NatStr(k)

(***************************************************************************)
(* core._normalize_nba_season                                              *)
(***************************************************************************)
\* the try block raises (int() of a non-literal)
NormalizeRaises(s) ==
    IF HasDash(s)
    THEN \/ ~IsIntLiteral(Take(SplitHead(s), 4))
         \/ ~IsIntLiteral(IF Len(SplitTail(s)) = 4 THEN Take(SplitTail(s), 4) ELSE SplitTail(s))
    ELSE ~IsIntLiteral(Take(s, 4))

\* _normalize_nba_season with the bare-year suffix left unpadded
_normalize_nba_season_unpadded(sn) ==
    LET s == Strip(sn) IN
    IF s = <<>> THEN s
    ELSE IF HasDash(s) /\ Len(SplitTail(s)) \in {1, 2} THEN s
    ELSE IF NormalizeRaises(s) THEN sn
    ELSE IF HasDash(s)
         THEN StrOf(IntOf(Take(SplitHead(s), 4))) \o <<"-">>
                  \o LastTwo(StrOf(IntOf(SplitTail(s))))
         ELSE StrOf(IntOf(Take(s, 4))) \o <<"-">> \o StrOf((IntOf(Take(s, 4)) + 1) % 100)

_normalize_nba_season(sn) ==
    LET s == Strip(sn) IN
    IF s = <<>> THEN s
    ELSE IF HasDash(s) /\ Len(SplitTail(s)) \in {1, 2} THEN s
    ELSE IF NormalizeRaises(s) THEN sn
    ELSE IF HasDash(s)
         THEN LET start == SplitHead(s)
                  end   == SplitTail(s)
                  sy    == IntOf(Take(start, 4))
                  ey    == IF Len(end) = 4 THEN IntOf(Take(end, 4)) ELSE IntOf(end)
              IN  StrOf(sy) \o <<"-">> \o LastTwo(StrOf(ey))
         ELSE LET sy  == IntOf(Take(s, 4))
                  ey2 == (sy + 1) % 100
              IN  StrOf(sy) \o <<"-">> \o Fmt02d(ey2)

None == "None"

\* core._season_start_year returns None: no year is negative
NoStartYear == 0 - 1

_season_start_year(sn) ==
    LET s == Strip(sn) IN
    IF HasDash(s)
    THEN IF IsIntLiteral(Take(SplitHead(s), 4)) THEN IntOf(Take(SplitHead(s), 4)) ELSE NoStartYear
    ELSE IF IsIntLiteral(Take(s, 4)) THEN IntOf(Take(s, 4)) ELSE NoStartYear

(***************************************************************************)
(* Season strings the normalizer is run on                                 *)
(***************************************************************************)
StartChars == {"0", "9", "x"}
EndChars   == {"0", "9", "x", "-"}

StartSegs == SeqsUpTo(StartChars, MaxSegLen)
EndSegs   == SeqsUpTo(EndChars, MaxSegLen)

\* a season string as typed: surrounded by blanks or not
Typed(body, padded) == IF padded THEN <<" ">> \o body \o <<" ">> ELSE body

SeasonExamples ==
    { <<"2","0","2","4">>,
      <<"2","0","2","4","-","2","5">>,
      <<"2","0","2","4","-","2","0","2","5">>,
      <<"2","0","2","5","-","2","0","2","6">>,
      <<"1","9","9","9">>,
      <<"2","0","0","4","-","2","0","0","5">> }

(***************************************************************************)
(* Player resolver: core.find_player_id, core.search_players               *)
(***************************************************************************)
\* code points of the characters player names are written with
CharCode(c) ==
    CASE c = "A" -> 65 [] c = "B" -> 66 [] c = "L" -> 76
      [] c = "a" -> 97 [] c = "b" -> 98 [] c = "l" -> 108 [] c = "o" -> 111

\* str.lower(), character by character
LowerChar(c) ==
    CASE c = "A" -> "a" [] c = "B" -> "b" [] c = "L" -> "l" [] OTHER -> c

Lower(s) == [i \in 1..Len(s) |-> LowerChar(s[i])]

RECURSIVE StrLess(_, _)
\* a < b for Python strings: lexicographic by code point
StrLess(a, b) ==
    IF b = <<>> THEN FALSE
    ELSE IF a = <<>> THEN TRUE
    ELSE IF CharCode(Head(a)) # CharCode(Head(b)) THEN CharCode(Head(a)) < CharCode(Head(b))
    ELSE StrLess(Tail(a), Tail(b))

\* the sort key of search_players: (not is_active, full_name)
SortKeyLess(r1, r2) ==
    LET k1 == ~r1.is_active
        k2 == ~r2.is_active
    IN  IF k1 # k2 THEN (~k1 /\ k2) ELSE StrLess(r1.full_name, r2.full_name)

\* list.sort(key=...): stable, so an entry goes behind every entry whose key
\* is not greater than its own
InsertByKey(sorted, r) ==
    LET behind == {i \in 1..Len(sorted) : ~SortKeyLess(r, sorted[i])}
        k == IF behind = {} THEN 0 ELSE CHOOSE i \in behind : \A j \in behind : j <= i
    IN  SubSeq(sorted, 1, k) \o <<r>> \o SubSeq(sorted, k + 1, Len(sorted))

RECURSIVE SortByKey(_)
SortByKey(rs) ==
    IF rs = <<>> THEN <<>>
    ELSE InsertByKey(SortByKey(SubSeq(rs, 1, Len(rs) - 1)), rs[Len(rs)])

RECURSIVE Dedupe(_, _, _)
\* the loop over results with the seen set
Dedupe(results, seen, deduped) ==
    IF results = <<>> THEN deduped
    ELSE LET r == Head(results) IN
         IF r.id \notin seen
         THEN Dedupe(Tail(results), seen \cup {r.id}, Append(deduped, r))
         ELSE Dedupe(Tail(results), seen, deduped)

\* search_players with the sort key's activity flag not negated
search_players_inactive_first(results) ==
    LET flipped == [i \in 1..Len(results) |->
                      [results[i] EXCEPT !.is_active = ~results[i].is_active]]
        sorted  == SortByKey(Dedupe(flipped, {}, <<>>))
    IN  [i \in 1..Len(sorted) |-> [sorted[i] EXCEPT !.is_active = ~sorted[i].is_active]]

\* search_players, given what the name index returned for the query
search_players(results) == SortByKey(Dedupe(results, {}, <<>>))

ValueError(name) == [raised |-> "ValueError", name |-> name]

\* find_player_id comparing the names case-sensitively
find_player_id_case_sensitive(name, found) ==
    IF found = <<>> THEN ValueError(name)
    ELSE LET exact == {i \in 1..Len(found) : found[i].full_name = name}
         IN  IF exact # {}
             THEN found[CHOOSE i \in exact : \A j \in exact : i <= j].id
             ELSE found[1].id

\* find_player_id, given what the name index returned for the name
find_player_id(name, found) ==
    IF found = <<>> THEN ValueError(name)
    ELSE LET exact == {i \in 1..Len(found) : Lower(found[i].full_name) = Lower(name)}
         IN  IF exact # {}
             THEN found[CHOOSE i \in exact : \A j \in exact : i <= j].id
             ELSE found[1].id

(***************************************************************************)
(* The static player index and the names typed                             *)
(***************************************************************************)
PlayerIds == {1, 2}
PlayerNames == {<<"A","l">>, <<"a","l">>, <<"B","o">>}
Players == [id : PlayerIds, full_name : PlayerNames, is_active : BOOLEAN]
MatchLists == SeqsUpTo(Players, MaxMatches)
Queries == PlayerNames \cup {<<"A","L">>}

(***************************************************************************)
(* Numbers: Python floats as exact fractions <<num, den>>, den > 0, in     *)
(* lowest terms, so that equal values are equal tuples                     *)
(***************************************************************************)
RECURSIVE GCD(_, _)
GCD(a, b) == IF b = 0 THEN a ELSE GCD(b, a % b)

Abs(a) == IF a < 0 THEN 0 - a ELSE a

\* a denominator of 0 marks the value of a division Python would refuse
\* (ZeroDivisionError)
Frac(num, den) ==
    IF den = 0 THEN <<num, 0>>
    ELSE LET g == GCD(Abs(num), den) IN <<num \div g, den \div g>>

\* float(k) of an integer
FloatOf(k) == <<k, 1>>
Zero == <<0, 1>>

FAdd(a, b) == Frac(a[1] * b[2] + b[1] * a[2], a[2] * b[2])
\* a / b for b > 0
FDiv(a, b) == Frac(a[1] * b[2], a[2] * b[1])
FLess(a, b) == a[1] * b[2] < b[1] * a[2]
FLeq(a, b) == a[1] * b[2] <= b[1] * a[2]

(***************************************************************************)
(* Game rows as the two providers deliver them                             *)
(***************************************************************************)
\* one game's box score: fgm, fga, ftm, fta, fg3m, pts, reb, ast, stl, blk, tov
BoxScores ==
    { <<2, 4, 1, 2, 1, 6, 3, 2, 1, 0, 2>>,
      <<1, 3, 0, 0, 0, 2, 1, 4, 0, 1, 1>>,
      <<0, 0, 0, 0, 0, 0, 0, 0, 0, 0, 0>>,
      <<1, 0, 2, 1, 0, 4, 2, 0, 1, 1, 3>> }   \* a corrupt row: more makes than attempts

\* column names of the primary provider's PlayerGameLog table
NbaHeaders == <<"FGM", "FGA", "FTM", "FTA", "FG3M", "PTS", "REB", "AST", "STL", "BLK", "TOV">>
\* field names of the secondary provider's stats rows
BdlFields  == <<"fgm", "fga", "ftm", "fta", "fg3m", "pts", "reb", "ast", "stl", "blk", "turnover">>

\* dict(zip(headers, row))
ZipRow(headers, row) ==
    LET k == Min(Len(headers), Len(row)) IN
    [h \in {headers[i] : i \in 1..k} |->
        row[CHOOSE i \in 1..k : headers[i] = h /\ \A j \in (i + 1)..k : headers[j] # h]]

NbaRow(box) == ZipRow(NbaHeaders, box)
BdlRow(box) == ZipRow(BdlFields, box)


(***************************************************************************)
(* Per-player averaging (core._last_n_averages_by_id lines 272-303,        *)
(* core._bdl_last_n_averages lines 208-256)                                *)
(***************************************************************************)
\* the window taken from the wrong end: games[-n:]
Recent_oldest(gs, w) ==
    IF Len(gs) >= w /\ w > 0 THEN SubSeq(gs, Len(gs) - w + 1, Len(gs)) ELSE gs

\* games[:n] if len(games) >= n else games
Recent(gs, w) == IF Len(gs) >= w THEN SubSeq(gs, 1, w) ELSE gs

RECURSIVE SumKey(_, _)
\* sum(float(g[key]) for g in recent)
SumKey(recent, key) ==
    IF recent = <<>> THEN Zero
    ELSE FAdd(FloatOf(Head(recent)[key]), SumKey(Tail(recent), key))

RECURSIVE SumGet(_, _)
\* sum(float(g.get(key, 0)) for g in recent)
SumGet(recent, key) ==
    IF recent = <<>> THEN Zero
    ELSE FAdd(FloatOf(IF key \in DOMAIN Head(recent) THEN Head(recent)[key] ELSE 0),
              SumGet(Tail(recent), key))

\* the guard testing the makes instead of the attempts
Pct_guard_on_makes(makes, attempts) == IF makes # Zero THEN FDiv(makes, attempts) ELSE Zero

\* (makes / attempts) if attempts else 0.0
Pct(makes, attempts) == IF attempts # Zero THEN FDiv(makes, attempts) ELSE Zero

\* the dict both averagers return, from the eleven sums and len(recent)
Summary(len, fgm, fga, ftm, fta, pts, reb, ast, stl, blk, tov, threes_made) ==
    LET games_count == FloatOf(Max(1, len)) IN
    [games_used |-> len,
     PTS |-> FDiv(pts, games_count),
     REB |-> FDiv(reb, games_count),
     AST |-> FDiv(ast, games_count),
     STL |-> FDiv(stl, games_count),
     BLK |-> FDiv(blk, games_count),
     TOV |-> FDiv(tov, games_count),
     FGM_pg |-> FDiv(fgm, games_count),
     FGA_pg |-> FDiv(fga, games_count),
     FTM_pg |-> FDiv(ftm, games_count),
     FTA_pg |-> FDiv(fta, games_count)]
        @@ ("3PM" :> FDiv(threes_made, games_count))
        @@ ("FG%" :> Pct(fgm, fga))
        @@ ("FT%" :> Pct(ftm, fta))

\* the literal all-zero dict of _bdl_last_n_averages
ZeroSummary ==
    [games_used |-> 0, PTS |-> Zero, REB |-> Zero, AST |-> Zero, STL |-> Zero,
     BLK |-> Zero, TOV |-> Zero, FGM_pg |-> Zero, FGA_pg |-> Zero,
     FTM_pg |-> Zero, FTA_pg |-> Zero]
        @@ ("3PM" :> Zero) @@ ("FG%" :> Zero) @@ ("FT%" :> Zero)

Raised(kind) == [raised |-> kind]
IsError(r) == "raised" \in DOMAIN r

\* some g["KEY"] of the primary averaging raises KeyError
MissingKey(recent) ==
    \E i \in 1..Len(recent) : \E j \in 1..Len(NbaHeaders) : NbaHeaders[j] \notin DOMAIN recent[i]

\* lines 272-303: the averaging of the extracted rows, inside the try block
AveragePrimary(gs, w) ==
    LET recent == Recent(gs, w) IN
    IF MissingKey(recent) THEN Raised("KeyError")
    ELSE Summary(Len(recent),
                 SumKey(recent, "FGM"), SumKey(recent, "FGA"),
                 SumKey(recent, "FTM"), SumKey(recent, "FTA"),
                 SumKey(recent, "PTS"), SumKey(recent, "REB"), SumKey(recent, "AST"),
                 SumKey(recent, "STL"), SumKey(recent, "BLK"), SumKey(recent, "TOV"),
                 SumKey(recent, "FG3M"))

\* lines 208-256: the averaging of the secondary provider's rows
AverageBdl(gs, w) ==
    LET recent == Recent(gs, w) IN
    IF recent = <<>> THEN ZeroSummary
    ELSE Summary(Len(recent),
                 SumGet(recent, "fgm"), SumGet(recent, "fga"),
                 SumGet(recent, "ftm"), SumGet(recent, "fta"),
                 SumGet(recent, "pts"), SumGet(recent, "reb"), SumGet(recent, "ast"),
                 SumGet(recent, "stl"), SumGet(recent, "blk"), SumGet(recent, "turnover"),
                 SumGet(recent, "fg3m"))


(***************************************************************************)
(* The primary provider's response object gl and core._extract_gamelog_rows*)
(*                                                                         *)
(* gl.request : "ok" | "raise"    PlayerGameLog(...) returned or raised    *)
(* gl.nd      : what get_normalized_dict() does                            *)
(*     kind "raise" | "nokey" (no "PlayerGameLog" key, or not a dict)      *)
(*        | "notlist" (the value is no list) | "list" (rows: the list)     *)
(* gl.rd      : what get_dict() does                                       *)
(*     kind "raise" | "dict", with resultSets and resultSet each           *)
(*     kind "absent" (missing or falsy) | "badlist" (a list whose first    *)
(*        element is no mapping) | "list" (a list, first element holding   *)
(*        headers/rowSet) | "dict" (a mapping holding headers/rowSet)      *)
(* gl.df      : what get_data_frames() does                                *)
(*     kind "raise" | "nodfs" (empty list) | "frame" (rows: the records)   *)
(***************************************************************************)
Yields(rows) == [yields |-> TRUE, rows |-> rows]
NoYield == [yields |-> FALSE, rows |-> <<>>]

\* 1) normalized dict (lines 102-109)
TryNormalized(g) ==
    IF g.nd.kind = "list" THEN Yields(g.nd.rows) ELSE NoYield

\* rd.get("resultSets") or rd.get("resultSet")
ResultSetOf(rd) == IF rd.resultSets.kind # "absent" THEN rd.resultSets ELSE rd.resultSet

\* 2) raw dict (lines 112-126)
TryRaw(g) ==
    IF g.rd.kind = "raise" THEN NoYield
    ELSE LET rs == ResultSetOf(g.rd) IN
         IF rs.kind = "badlist" THEN NoYield
         ELSE LET headers == IF rs.kind \in {"list", "dict"} THEN rs.headers ELSE <<>>
                  rowset  == IF rs.kind \in {"list", "dict"} THEN rs.rowSet ELSE <<>>
              IN  IF headers # <<>> /\ rowset # <<>>
                  THEN Yields([i \in 1..Len(rowset) |-> ZipRow(headers, rowset[i])])
                  ELSE NoYield

\* 3) data frames (lines 129-135)
TryFrames(g) ==
    IF g.df.kind = "frame" THEN Yields(g.df.rows) ELSE NoYield

Rows(rows) == [ok |-> TRUE, rows |-> rows]
ParseError == [ok |-> FALSE, rows |-> <<>>]

\* _extract_gamelog_rows: the rows returned, or the RuntimeError of line 137
_extract_gamelog_rows(g) ==
    IF TryNormalized(g).yields THEN Rows(TryNormalized(g).rows)
    ELSE IF TryRaw(g).yields THEN Rows(TryRaw(g).rows)
    ELSE IF TryFrames(g).yields THEN Rows(TryFrames(g).rows)
    ELSE ParseError

(***************************************************************************)
(* Responses of the primary provider                                       *)
(***************************************************************************)
Nd(kind, rows) == [kind |-> kind, rows |-> rows]
Rs(kind, headers, rowSet) == [kind |-> kind, headers |-> headers, rowSet |-> rowSet]
AbsentRs == Rs("absent", <<>>, <<>>)
RdRaise == [kind |-> "raise", resultSets |-> AbsentRs, resultSet |-> AbsentRs]
Rd(resultSets, resultSet) == [kind |-> "dict", resultSets |-> resultSets, resultSet |-> resultSet]
Df(kind, rows) == [kind |-> kind, rows |-> rows]
GameLog(nd, rd, df) == [request |-> "ok", nd |-> nd, rd |-> rd, df |-> df]
RequestRaises ==
    [request |-> "raise", nd |-> Nd("raise", <<>>), rd |-> RdRaise, df |-> Df("raise", <<>>)]

\* most-recent-first box-score lists of a season
BoxLists == SeqsUpTo(BoxScores, MaxGames)
NbaRowsOf(boxes) == [i \in 1..Len(boxes) |-> NbaRow(boxes[i])]

\* a response whose three views show the same games; views 1..(level-1) are
\* unusable (the table is missing from the normalized dict, get_dict raises)
Consistent(boxes, level) ==
    GameLog(IF level = 1 THEN Nd("list", NbaRowsOf(boxes)) ELSE Nd("nokey", <<>>),
            IF level <= 2 THEN Rd(Rs("list", NbaHeaders, boxes), AbsentRs) ELSE RdRaise,
            Df("frame", NbaRowsOf(boxes)))

\* the header row with the FG3M column missing
ShortHeaders == SubSeq(NbaHeaders, 1, 4) \o SubSeq(NbaHeaders, 6, 11)

Box1 == <<2, 4, 1, 2, 1, 6, 3, 2, 1, 0, 2>>
Box2 == <<1, 3, 0, 0, 0, 2, 1, 4, 0, 1, 1>>
Box3 == <<0, 0, 0, 0, 0, 0, 0, 0, 0, 0, 0>>

\* responses whose views disagree, one marker game per view
NdViews ==
    { Nd("raise", <<>>), Nd("nokey", <<>>), Nd("notlist", <<>>),
      Nd("list", <<>>), Nd("list", <<NbaRow(Box1)>>) }
RsViews(kind) ==
    {Rs(kind, h, r) : h \in {<<>>, NbaHeaders, ShortHeaders}, r \in {<<>>, <<Box2>>}}
RdViews ==
    {RdRaise, Rd(AbsentRs, AbsentRs), Rd(Rs("badlist", <<>>, <<>>), AbsentRs)}
        \cup {Rd(x, AbsentRs) : x \in RsViews("list")}
        \cup {Rd(AbsentRs, y) : y \in RsViews("dict")}
DfViews ==
    { Df("raise", <<>>), Df("nodfs", <<>>), Df("frame", <<>>), Df("frame", <<NbaRow(Box3)>>) }

GameLogs ==
    {RequestRaises}
        \cup {Consistent(b, level) : b \in BoxLists, level \in 1..3}
        \cup {GameLog(nd, rd, df) : nd \in NdViews, rd \in RdViews, df \in DfViews}


(***************************************************************************)
(* Secondary provider (balldontlie): core._bdl_find_player_id,             *)
(* core._bdl_last_n_averages                                               *)
(***************************************************************************)
\* a display name the caller did not give (Python None)
NoName == <<"None">>

\* `if full_name:` -- None and the empty string are both falsy
Truthy(name) == name # NoName /\ name # <<>>

\* full_name_of(it)
FullNameOf(it) == Strip(Strip(it.first_name) \o <<" ">> \o Strip(it.last_name))

\* _bdl_find_player_id; None is modelled as 0, which its only caller
\* (`if not pid`) treats exactly like None
_bdl_find_player_id(name, resp) ==
    IF resp.kind = "raise" THEN 0
    ELSE IF resp.items = <<>> THEN 0
    ELSE LET exact == {i \in 1..Len(resp.items) :
                          Lower(FullNameOf(resp.items[i])) = Lower(name)}
         IN  IF exact # {}
             THEN resp.items[CHOOSE i \in exact : \A j \in exact : i <= j].id
             ELSE resp.items[1].id

BdlNoPlayer == [raised |-> "RuntimeError", msg |-> "balldontlie: no player found"]
BdlBadSeason == [raised |-> "RuntimeError", msg |-> "balldontlie: invalid season format"]
BdlFetchFailed == [raised |-> "RuntimeError", msg |-> "balldontlie fetch failed"]

\* _bdl_last_n_averages, given the secondary provider's two answers
_bdl_last_n_averages(name, sn, w, players_resp, stats_resp) ==
    IF _bdl_find_player_id(name, players_resp) = 0 THEN BdlNoPlayer
    ELSE IF _season_start_year(sn) = NoStartYear THEN BdlBadSeason
    ELSE IF stats_resp.kind = "raise" THEN BdlFetchFailed
    ELSE AverageBdl(stats_resp.games, w)

\* exceptions of the primary path
TransportError == [raised |-> "TransportError", msg |-> "PlayerGameLog request failed"]
ParseFailure == [raised |-> "RuntimeError", msg |-> "Unable to parse PlayerGameLog response"]
KeyError == [raised |-> "KeyError", msg |-> "missing column"]
NoError == [raised |-> "nothing", msg |-> ""]

\* the try block of _last_n_averages_by_id (lines 263-303)
PrimaryOutcome(g, w) ==
    IF g.request = "raise" THEN TransportError
    ELSE LET extracted == _extract_gamelog_rows(g) IN
         IF ~extracted.ok THEN ParseFailure
         ELSE LET averages == AveragePrimary(extracted.rows, w) IN
              IF IsError(averages) THEN KeyError ELSE averages

\* line 306 testing `full_name is not None`: an empty name counts as given
UseFallback_not_none(name) == name # NoName

\* line 306: `if full_name:`
UseFallback(name) == Truthy(name)

\* _last_n_averages_by_id as one step, given every provider answer
_last_n_averages_by_id(g, sn, w, name, players_resp, stats_resp) ==
    LET primary == PrimaryOutcome(g, w) IN
    IF ~IsError(primary) THEN primary
    ELSE IF UseFallback(name) THEN _bdl_last_n_averages(name, sn, w, players_resp, stats_resp)
    ELSE primary

(***************************************************************************)
(* Responses of the secondary provider                                     *)
(***************************************************************************)
Al == <<"A", "l">>
BdlItem(id, first, last) == [id |-> id, first_name |-> first, last_name |-> last]
BdlPlayersResponses ==
    { [kind |-> "raise", items |-> <<>>],
      [kind |-> "ok", items |-> <<>>],
      [kind |-> "ok", items |-> <<BdlItem(0, <<"A", "l">>, <<>>)>>],
      [kind |-> "ok", items |-> <<BdlItem(7, <<"a", "l", " ">>, <<>>)>>],
      [kind |-> "ok", items |-> <<BdlItem(8, <<"B">>, <<"o">>), BdlItem(7, <<"A", "l">>, <<>>)>>] }

BdlBoxScores == BoxScores \ {Box3}
BdlRowsOf(boxes) == [i \in 1..Len(boxes) |-> BdlRow(boxes[i])]
\* a stats row without the turnover field, which g.get defaults to 0
BdlSparseRow == [k \in {"fgm", "fga", "pts"} |-> IF k = "pts" THEN 2 ELSE 1]
BdlStatsResponses ==
    {[kind |-> "raise", games |-> <<>>], [kind |-> "ok", games |-> <<BdlSparseRow>>]}
        \cup {[kind |-> "ok", games |-> BdlRowsOf(b)] : b \in SeqsUpTo(BdlBoxScores, MaxGames)}
NotAsked == [kind |-> "unasked"]

(***************************************************************************)
(* Team aggregation: core.compute_team_stats and                           *)
(* streamlit_app.compute_team_stats_cached                                 *)
(***************************************************************************)
TotalKeys == {"PTS", "REB", "AST", "STL", "BLK", "TOV", "3PM",
              "FGM_pg", "FGA_pg", "FTM_pg", "FTA_pg"}

ZeroTotals ==
    [PTS |-> Zero, REB |-> Zero, AST |-> Zero, STL |-> Zero, BLK |-> Zero, TOV |-> Zero,
     FGM_pg |-> Zero, FGA_pg |-> Zero, FTM_pg |-> Zero, FTA_pg |-> Zero] @@ ("3PM" :> Zero)

\* avgs.get(k, 0.0)
GetAvg(avgs, k) == IF k \in DOMAIN avgs THEN avgs[k] ELSE Zero

\* the inner loop with attempts accumulated from the makes (a copy-paste slip)
AddAverages_makes_as_attempts(tot, avgs) ==
    [PTS |-> FAdd(tot["PTS"], GetAvg(avgs, "PTS")),
     REB |-> FAdd(tot["REB"], GetAvg(avgs, "REB")),
     AST |-> FAdd(tot["AST"], GetAvg(avgs, "AST")),
     STL |-> FAdd(tot["STL"], GetAvg(avgs, "STL")),
     BLK |-> FAdd(tot["BLK"], GetAvg(avgs, "BLK")),
     TOV |-> FAdd(tot["TOV"], GetAvg(avgs, "TOV")),
     FGM_pg |-> FAdd(tot["FGM_pg"], GetAvg(avgs, "FGM_pg")),
     FGA_pg |-> FAdd(tot["FGA_pg"], GetAvg(avgs, "FGM_pg")),
     FTM_pg |-> FAdd(tot["FTM_pg"], GetAvg(avgs, "FTM_pg")),
     FTA_pg |-> FAdd(tot["FTA_pg"], GetAvg(avgs, "FTM_pg"))]
        @@ ("3PM" :> FAdd(tot["3PM"], GetAvg(avgs, "3PM")))

\* the inner loop: totals[k] += float(avgs.get(k, 0.0))
AddAverages(tot, avgs) ==
    [PTS |-> FAdd(tot["PTS"], GetAvg(avgs, "PTS")),
     REB |-> FAdd(tot["REB"], GetAvg(avgs, "REB")),
     AST |-> FAdd(tot["AST"], GetAvg(avgs, "AST")),
     STL |-> FAdd(tot["STL"], GetAvg(avgs, "STL")),
     BLK |-> FAdd(tot["BLK"], GetAvg(avgs, "BLK")),
     TOV |-> FAdd(tot["TOV"], GetAvg(avgs, "TOV")),
     FGM_pg |-> FAdd(tot["FGM_pg"], GetAvg(avgs, "FGM_pg")),
     FGA_pg |-> FAdd(tot["FGA_pg"], GetAvg(avgs, "FGA_pg")),
     FTM_pg |-> FAdd(tot["FTM_pg"], GetAvg(avgs, "FTM_pg")),
     FTA_pg |-> FAdd(tot["FTA_pg"], GetAvg(avgs, "FTA_pg"))]
        @@ ("3PM" :> FAdd(tot["3PM"], GetAvg(avgs, "3PM")))

\* the summary built from the totals (core lines 372-381, app lines 148-152)
TeamOut(tot) ==
    [PTS |-> tot["PTS"], REB |-> tot["REB"], AST |-> tot["AST"], STL |-> tot["STL"],
     BLK |-> tot["BLK"], TOV |-> tot["TOV"]]
        @@ ("3PM" :> tot["3PM"])
        @@ ("FG%" :> Pct(tot["FGM_pg"], tot["FGA_pg"]))
        @@ ("FT%" :> Pct(tot["FTM_pg"], tot["FTA_pg"]))

\* what the secondary provider would answer during an aggregation if it were
\* asked: it finds a player for any name and has two games of that player
BdlPlayersAnswer == [kind |-> "ok", items |-> <<BdlItem(7, <<"A", "l">>, <<>>)>>]
BdlStatsAnswer == [kind |-> "ok", games |-> <<BdlRow(Box1), BdlRow(Box2)>>]

\* the roster's name handed on as full_name
TeamCallName_from_roster(name) == name

\* the full_name the aggregators' per-player call carries: the call of
\* core line 352 and of cached_player_avg (app line 108) passes no
\* full_name, which then keeps its default None
TeamCallName(name) == NoName

\* the per-player call both aggregators make for the roster entry (pid, name)
PlayerAverage(g, sn, w, name) ==
    _last_n_averages_by_id(g, sn, w, TeamCallName(name), BdlPlayersAnswer, BdlStatsAnswer)

\* the providers that call contacts, in order (core lines 264, 156, 188)
PlayerContacts(g, sn, w, name) ==
    IF ~IsError(PrimaryOutcome(g, w)) \/ ~UseFallback(TeamCallName(name)) THEN <<"nba">>
    ELSE IF _bdl_find_player_id(TeamCallName(name), BdlPlayersAnswer) = 0
            \/ _season_start_year(sn) = NoStartYear
         THEN <<"nba", "bdl_players">>
         ELSE <<"nba", "bdl_players", "bdl_stats">>

Warning(name, e) == [name |-> name, error |-> e]

RECURSIVE TeamLoop_stop_at_failure(_, _, _, _, _, _)
\* the roster loop leaving at the first failed player instead of continuing
TeamLoop_stop_at_failure(ros, resp, sn, w, i, acc) ==
    IF i > Len(ros) THEN acc
    ELSE LET avgs == PlayerAverage(resp[i], sn, w, ros[i][2])
             asked == PlayerContacts(resp[i], sn, w, ros[i][2])
         IN
         IF IsError(avgs)
         THEN [acc EXCEPT !.warnings = Append(@, Warning(ros[i][2], avgs)),
                          !.contacted = @ \o asked]
         ELSE TeamLoop_stop_at_failure(ros, resp, sn, w, i + 1,
                                       [acc EXCEPT !.totals = AddAverages(@, avgs),
                                                   !.contacted = @ \o asked])

RECURSIVE TeamLoop(_, _, _, _, _, _)
\* the loop over the roster from entry i on; acc holds the totals, the
\* players skipped so far and the providers contacted so far
TeamLoop(ros, resp, sn, w, i, acc) ==
    IF i > Len(ros) THEN acc
    ELSE LET avgs == PlayerAverage(resp[i], sn, w, ros[i][2])
             asked == PlayerContacts(resp[i], sn, w, ros[i][2])
         IN
         IF IsError(avgs)
         THEN TeamLoop(ros, resp, sn, w, i + 1,
                       [acc EXCEPT !.warnings = Append(@, Warning(ros[i][2], avgs)),
                                   !.contacted = @ \o asked])
         ELSE TeamLoop(ros, resp, sn, w, i + 1,
                       [acc EXCEPT !.totals = AddAverages(@, avgs),
                                   !.contacted = @ \o asked])

LoopStart == [totals |-> ZeroTotals, warnings |-> <<>>, contacted |-> <<>>]

\* core.compute_team_stats: the skipped players leave no trace
compute_team_stats(ros, sn, w, resp) ==
    TeamOut(TeamLoop(ros, resp, sn, w, 1, LoopStart).totals)

\* streamlit_app.compute_team_stats_cached: (out, warnings)
compute_team_stats_cached(ros, sn, w, resp) ==
    LET looped == TeamLoop(ros, resp, sn, w, 1, LoopStart) IN
    [out |-> TeamOut(looped.totals), warnings |-> looped.warnings]

(***************************************************************************)
(* Rosters and the responses their players' requests get                   *)
(***************************************************************************)
Box4 == <<1, 0, 2, 1, 0, 4, 2, 0, 1, 1, 3>>
RosterEntries == {<<1, <<"A", "l">>>>, <<2, <<"B", "o">>>>, <<3, <<"a", "l">>>>}
Rosters == SeqsUpTo(RosterEntries, MaxRoster)
NoDuplicates(ros) == \A i, j \in 1..Len(ros) : i # j => ros[i] # ros[j]

Unparseable == GameLog(Nd("nokey", <<>>), Rd(AbsentRs, AbsentRs), Df("nodfs", <<>>))
TeamGameLogs ==
    { RequestRaises,
      Unparseable,
      Consistent(<<>>, 1),
      Consistent(<<Box1>>, 1),
      Consistent(<<Box1, Box2>>, 2),
      Consistent(<<Box2, Box3, Box1>>, 3),
      Consistent(<<Box4>>, 1) }

TeamSeason == <<"2","0","2","5","-","2","0","2","6">>

(***************************************************************************)
(* The "Fetch & Compare" handler (streamlit_app.py lines 198-265)          *)
(***************************************************************************)
cats == <<"FG%", "FT%", "3PM", "PTS", "REB", "AST", "STL", "BLK", "TOV">>

\* the lead with turnovers compared like every other category
Lead_higher_always(c, v1, v2) ==
    IF FLess(v2, v1) THEN "My Team"
    ELSE IF FLess(v1, v2) THEN "Team of the opponent" ELSE "="

\* lines 234-237
Lead(c, v1, v2) ==
    IF c = "TOV"
    THEN IF FLess(v1, v2) THEN "My Team"
         ELSE IF FLess(v2, v1) THEN "Team of the opponent" ELSE "="
    ELSE IF FLess(v2, v1) THEN "My Team"
         ELSE IF FLess(v1, v2) THEN "Team of the opponent" ELSE "="

\* float(stats.get(c, 0.0))
StatOf(stats, c) == IF c \in DOMAIN stats THEN stats[c] ELSE Zero

\* the rows appended by the loop over cats (lines 231-247)
CompareRows(s1, s2) ==
    [i \in 1..Len(cats) |->
        [Category |-> cats[i],
         MyTeam   |-> StatOf(s1, cats[i]),
         Opponent |-> StatOf(s2, cats[i]),
         Lead     |-> Lead(cats[i], StatOf(s1, cats[i]), StatOf(s2, cats[i]))]]

RECURSIVE CountLead(_, _, _)
\* my_wins / opp_wins after the first i iterations
CountLead(trows, i, who) ==
    IF i = 0 THEN 0
    ELSE CountLead(trows, i - 1, who) + (IF trows[i].Lead = who THEN 1 ELSE 0)

\* the three conclusions (lines 252, 254, 256)
YouWin  == "Comrade, you would win this trade. Do it!"
YouLose == "Comrade, the capitalists are trying to pull your leg. You lose this trade."
Tie     == "Comrade, this trade is a tie and leads to peaceful co-existance."

\* lines 251-256
Verdict(mine, theirs) ==
    IF mine > theirs THEN YouWin
    ELSE IF theirs > mine THEN YouLose
    ELSE Tie

\* the responses the requests of a roster's players get
LogsOf(ros, logs) == [i \in 1..Len(ros) |-> logs[ros[i][1]]]

ComparePlayerIds == {e[1] : e \in RosterEntries}
CompareGameLogs ==
    { RequestRaises,
      Consistent(<<>>, 1),
      Consistent(<<Box1>>, 1),
      Consistent(<<Box1, Box2>>, 2),
      Consistent(<<Box2, Box3, Box1>>, 3) }

(***************************************************************************)
(* One call of last_n_averages / _last_n_averages_by_id, step by step      *)
(***************************************************************************)
NotRequested ==
    [request |-> "pending", nd |-> Nd("raise", <<>>), rd |-> RdRaise, df |-> Df("raise", <<>>)]
Pending == [pending |-> TRUE]

CallSeasons == {<<"2","0","2","4","-","2","5">>, <<"2","0","2","5","-","2","0","2","6">>, <<"x">>}
AlRecord == [id |-> 1, full_name |-> <<"a", "l">>, is_active |-> TRUE]

IdleCompare ==
    /\ pcU = "off"
    /\ team1 = <<>>
    /\ team2 = <<>>
    /\ player_logs = <<>>
    /\ stats1 = Pending
    /\ stats2 = Pending
    /\ warn1 = <<>>
    /\ warn2 = <<>>
    /\ table_rows = <<>>
    /\ my_wins = 0
    /\ opp_wins = 0
    /\ verdict = ""

\* the normalizer is not running
IdleSeason ==
    /\ pcS = "off"
    /\ season = <<>>
    /\ normalized = <<>>
    /\ renormalized = <<>>

\* the resolver is not running
IdlePlayers ==
    /\ pcP = "off"
    /\ matches = <<>>
    /\ query = <<>>
    /\ search_result = <<>>
    /\ find_result = None

IdleTeam ==
    /\ roster = <<>>
    /\ responses = <<>>
    /\ totals = ZeroTotals
    /\ team_out = Pending
    /\ warnings = <<>>

IdleCall ==
    /\ pc = "off"
    /\ call = "none"
    /\ player_id = 0
    /\ n = 0
    /\ full_name = NoName
    /\ gl = NotRequested
    /\ tried = <<>>
    /\ games = <<>>
    /\ primary_error = NoError
    /\ bdl_players = NotAsked
    /\ bdl_stats = NotAsked
    /\ contacted = <<>>
    /\ result = Pending

InitCall ==
    /\ call \in {"last_n_averages", "_last_n_averages_by_id"}
    /\ pc = IF call = "last_n_averages" THEN "resolve" ELSE "request"
    /\ player_id = IF call = "last_n_averages" THEN 0 ELSE 1
    /\ n \in 0..MaxWindow
    /\ full_name \in IF call = "last_n_averages" THEN {Al} ELSE {NoName, <<>>, Al}
    /\ season \in CallSeasons
    /\ matches \in IF call = "last_n_averages" THEN {<<>>, <<AlRecord>>} ELSE {<<>>}
    /\ gl = NotRequested
    /\ tried = <<>>
    /\ games = <<>>
    /\ primary_error = NoError
    /\ bdl_players = NotAsked
    /\ bdl_stats = NotAsked
    /\ contacted = <<>>
    /\ result = Pending
    /\ normalized = <<>>
    /\ pcS = "off" /\ renormalized = <<>>
    /\ pcP = "off" /\ query = <<>> /\ search_result = <<>> /\ find_result = None
    /\ IdleTeam
    /\ IdleCompare

\* last_n_averages line 312: pid = find_player_id(full_name)
ResolveId ==
    /\ pc = "resolve"
    /\ LET r == find_player_id(full_name, matches) IN
       IF matches = <<>>
       THEN /\ result' = r
            /\ pc' = "done"
            /\ UNCHANGED player_id
       ELSE /\ player_id' = r
            /\ pc' = "request"
            /\ UNCHANGED result
    /\ UNCHANGED <<call, n, full_name, gl, tried, games, primary_error,
                   bdl_players, bdl_stats, contacted, varsS, varsP, varsT, varsU>>

\* lines 262-269: normalize the season and request the game log
PrimaryRequest ==
    /\ pc = "request"
    /\ normalized' = _normalize_nba_season(season)
    /\ contacted' = Append(contacted, "nba")
    /\ \E g \in GameLogs :
        /\ gl' = g
        /\ IF g.request = "raise"
           THEN primary_error' = TransportError /\ pc' = "except"
           ELSE primary_error' = primary_error /\ pc' = "shape1"
    /\ UNCHANGED <<call, player_id, n, full_name, tried, games, bdl_players, bdl_stats,
                   result, pcS, season, renormalized, varsP, varsT, varsU>>

\* lines 102-109
ExtractNormalized ==
    /\ pc = "shape1"
    /\ tried' = Append(tried, "normalized")
    /\ IF TryNormalized(gl).yields
       THEN games' = TryNormalized(gl).rows /\ pc' = "average"
       ELSE games' = games /\ pc' = "shape2"
    /\ UNCHANGED <<call, player_id, n, full_name, gl, primary_error, bdl_players, bdl_stats,
                   contacted, result, varsS, varsP, varsT, varsU>>

\* lines 112-126
ExtractRaw ==
    /\ pc = "shape2"
    /\ tried' = Append(tried, "raw")
    /\ IF TryRaw(gl).yields
       THEN games' = TryRaw(gl).rows /\ pc' = "average"
       ELSE games' = games /\ pc' = "shape3"
    /\ UNCHANGED <<call, player_id, n, full_name, gl, primary_error, bdl_players, bdl_stats,
                   contacted, result, varsS, varsP, varsT, varsU>>

\* lines 129-139
ExtractFrames ==
    /\ pc = "shape3"
    /\ tried' = Append(tried, "frames")
    /\ IF TryFrames(gl).yields
       THEN games' = TryFrames(gl).rows /\ pc' = "average" /\ primary_error' = primary_error
       ELSE games' = games /\ pc' = "except" /\ primary_error' = ParseFailure
    /\ UNCHANGED <<call, player_id, n, full_name, gl, bdl_players, bdl_stats,
                   contacted, result, varsS, varsP, varsT, varsU>>

\* lines 272-303
Average ==
    /\ pc = "average"
    /\ LET r == AveragePrimary(games, n) IN
       IF IsError(r)
       THEN primary_error' = KeyError /\ pc' = "except" /\ result' = result
       ELSE primary_error' = primary_error /\ pc' = "done" /\ result' = r
    /\ UNCHANGED <<call, player_id, n, full_name, gl, tried, games, bdl_players, bdl_stats,
                   contacted, varsS, varsP, varsT, varsU>>

\* lines 304-308 without a usable name: re-raise
Reraise ==
    /\ pc = "except"
    /\ ~UseFallback(full_name)
    /\ result' = primary_error
    /\ pc' = "done"
    /\ UNCHANGED <<call, player_id, n, full_name, gl, tried, games, primary_error,
                   bdl_players, bdl_stats, contacted, varsS, varsP, varsT, varsU>>

\* lines 304-307 and 180-185: the fallback's player search and season check
BdlFindPlayer ==
    /\ pc = "except"
    /\ UseFallback(full_name)
    /\ contacted' = Append(contacted, "bdl_players")
    /\ \E resp \in BdlPlayersResponses :
        /\ bdl_players' = resp
        /\ IF _bdl_find_player_id(full_name, resp) = 0
           THEN result' = BdlNoPlayer /\ pc' = "done"
           ELSE IF _season_start_year(season) = NoStartYear
           THEN result' = BdlBadSeason /\ pc' = "done"
           ELSE result' = result /\ pc' = "bdl_stats"
    /\ UNCHANGED <<call, player_id, n, full_name, gl, tried, games, primary_error,
                   bdl_stats, varsS, varsP, varsT, varsU>>

\* lines 187-256: the fallback's stats request and averaging
BdlStats ==
    /\ pc = "bdl_stats"
    /\ contacted' = Append(contacted, "bdl_stats")
    /\ \E resp \in BdlStatsResponses :
        /\ bdl_stats' = resp
        /\ result' = IF resp.kind = "raise" THEN BdlFetchFailed ELSE AverageBdl(resp.games, n)
    /\ pc' = "done"
    /\ UNCHANGED <<call, player_id, n, full_name, gl, tried, games, primary_error,
                   bdl_players, varsS, varsP, varsT, varsU>>

(***************************************************************************)
(* One team aggregation                                                    *)
(***************************************************************************)
InitTeam ==
    /\ call \in {"compute_team_stats", "compute_team_stats_cached"}
    /\ pc = "team"
    /\ roster \in IF call = "compute_team_stats" THEN Rosters
                  ELSE {r \in Rosters : NoDuplicates(r)}
    /\ responses \in [1..Len(roster) -> TeamGameLogs]
    /\ season = TeamSeason
    /\ n \in IF call = "compute_team_stats" THEN 0..MaxWindow ELSE 1..MaxWindow
    /\ totals = ZeroTotals
    /\ team_out = Pending
    /\ warnings = <<>>
    /\ player_id = 0
    /\ full_name = NoName
    /\ gl = NotRequested
    /\ tried = <<>>
    /\ games = <<>>
    /\ primary_error = NoError
    /\ bdl_players = NotAsked
    /\ bdl_stats = NotAsked
    /\ contacted = <<>>
    /\ result = Pending
    /\ normalized = <<>>
    /\ pcS = "off" /\ renormalized = <<>>
    /\ IdlePlayers
    /\ IdleCompare

\* core.compute_team_stats(roster, season, n)
ComputeTeamStats ==
    /\ pc = "team"
    /\ call = "compute_team_stats"
    /\ \E looped \in {TeamLoop(roster, responses, season, n, 1, LoopStart)} :
           /\ totals' = looped.totals
           /\ contacted' = looped.contacted
    /\ team_out' = compute_team_stats(roster, season, n, responses)
    /\ pc' = "done"
    /\ UNCHANGED <<call, player_id, n, full_name, gl, tried, games, primary_error,
                   bdl_players, bdl_stats, result,
                   roster, responses, warnings, varsS, varsP, varsU>>

\* streamlit_app.compute_team_stats_cached(roster, season, n)
ComputeTeamStatsCached ==
    /\ pc = "team"
    /\ call = "compute_team_stats_cached"
    /\ \E looped \in {TeamLoop(roster, responses, season, n, 1, LoopStart)} :
           /\ totals' = looped.totals
           /\ contacted' = looped.contacted
    /\ \E returned \in {compute_team_stats_cached(roster, season, n, responses)} :
           /\ team_out' = returned.out
           /\ warnings' = returned.warnings
    /\ pc' = "done"
    /\ UNCHANGED <<call, player_id, n, full_name, gl, tried, games, primary_error,
                   bdl_players, bdl_stats, result,
                   roster, responses, varsS, varsP, varsU>>

Init == InitCall \/ InitTeam

Next ==
    \/ ComputeTeamStats
    \/ ComputeTeamStatsCached
    \/ ResolveId
    \/ PrimaryRequest
    \/ ExtractNormalized
    \/ ExtractRaw
    \/ ExtractFrames
    \/ Average
    \/ Reraise
    \/ BdlFindPlayer
    \/ BdlStats

Spec == Init /\ [][Next]_vars


(***************************************************************************)
(* Specification of the season normalizer                                  *)
(***************************************************************************)
InitSeason ==
    /\ pcS = "input"
    /\ \/ \E a \in StartSegs, padded \in BOOLEAN : season = Typed(a, padded)
       \/ \E a \in StartSegs, b \in EndSegs, padded \in BOOLEAN :
              season = Typed(a \o <<"-">> \o b, padded)
       \/ season \in SeasonExamples
    /\ normalized = <<>>
    /\ renormalized = <<>>
    /\ IdlePlayers
    /\ IdleCall
    /\ IdleTeam
    /\ IdleCompare

\* the call _normalize_nba_season(season) made by _last_n_averages_by_id
Normalize ==
    /\ pcS = "input"
    /\ normalized' = _normalize_nba_season(season)
    /\ pcS' = "once"
    /\ UNCHANGED <<season, renormalized, varsP, varsC, varsT, varsU>>

\* the canonical token is handed to the normalizer again
NormalizeAgain ==
    /\ pcS = "once"
    /\ renormalized' = _normalize_nba_season(normalized)
    /\ pcS' = "twice"
    /\ UNCHANGED <<season, normalized, varsP, varsC, varsT, varsU>>

NextSeason == Normalize \/ NormalizeAgain

SpecSeason == InitSeason /\ [][NextSeason]_vars

(***************************************************************************)
(* Specification of the player resolver                                    *)
(***************************************************************************)
InitPlayers ==
    /\ pcP = "index"
    /\ matches \in MatchLists
    /\ query \in Queries
    /\ search_result = <<>>
    /\ find_result = None
    /\ IdleSeason
    /\ IdleCall
    /\ IdleTeam
    /\ IdleCompare

SearchPlayers ==
    /\ pcP = "index"
    /\ search_result' = search_players(matches)
    /\ pcP' = "searched"
    /\ UNCHANGED <<matches, query, find_result, varsS, varsC, varsT, varsU>>

FindPlayerId ==
    /\ pcP = "index"
    /\ find_result' = find_player_id(query, matches)
    /\ pcP' = "found"
    /\ UNCHANGED <<matches, query, search_result, varsS, varsC, varsT, varsU>>

NextPlayers == SearchPlayers \/ FindPlayerId

SpecPlayers == InitPlayers /\ [][NextPlayers]_vars

(***************************************************************************)
(* Specification of the "Fetch & Compare" handler                          *)
(***************************************************************************)
InitCompare ==
    /\ pcU = "button"
    /\ team1 \in {r \in Rosters : NoDuplicates(r)}
    /\ team2 \in {r \in Rosters : NoDuplicates(r)}
    /\ player_logs \in [ComparePlayerIds -> CompareGameLogs]
    /\ season = TeamSeason
    /\ n \in 1..MaxWindow
    /\ stats1 = Pending
    /\ stats2 = Pending
    /\ warn1 = <<>>
    /\ warn2 = <<>>
    /\ table_rows = <<>>
    /\ my_wins = 0
    /\ opp_wins = 0
    /\ verdict = ""
    /\ normalized = <<>>
    /\ pcS = "off" /\ renormalized = <<>>
    /\ IdlePlayers
    /\ IdleTeam
    /\ pc = "off"
    /\ call = "none"
    /\ player_id = 0
    /\ full_name = NoName
    /\ gl = NotRequested
    /\ tried = <<>>
    /\ games = <<>>
    /\ primary_error = NoError
    /\ bdl_players = NotAsked
    /\ bdl_stats = NotAsked
    /\ contacted = <<>>
    /\ result = Pending

\* lines 199-200: a team is empty
WarnEmptyTeam ==
    /\ pcU = "button"
    /\ team1 = <<>> \/ team2 = <<>>
    /\ pcU' = "warned"
    /\ UNCHANGED <<team1, team2, player_logs, stats1, stats2, warn1, warn2,
                   table_rows, my_wins, opp_wins, verdict, varsS, varsP, varsC, varsT>>

\* lines 201-225: both teams are fetched and their warnings shown
FetchTeams ==
    /\ pcU = "button"
    /\ team1 # <<>> /\ team2 # <<>>
    /\ \E r1 \in {compute_team_stats_cached(team1, season, n, LogsOf(team1, player_logs))} :
       \E r2 \in {compute_team_stats_cached(team2, season, n, LogsOf(team2, player_logs))} :
           /\ stats1' = r1.out
           /\ warn1' = r1.warnings
           /\ stats2' = r2.out
           /\ warn2' = r2.warnings
    /\ pcU' = "fetched"
    /\ UNCHANGED <<team1, team2, player_logs, table_rows, my_wins, opp_wins, verdict,
                   varsS, varsP, varsC, varsT>>

\* lines 227-249: the loop over cats fills the table and counts the leads
CompareCategories ==
    /\ pcU = "fetched"
    /\ table_rows' = CompareRows(stats1, stats2)
    /\ my_wins' = CountLead(CompareRows(stats1, stats2), Len(cats), "My Team")
    /\ opp_wins' = CountLead(CompareRows(stats1, stats2), Len(cats), "Team of the opponent")
    /\ pcU' = "counted"
    /\ UNCHANGED <<team1, team2, player_logs, stats1, stats2, warn1, warn2, verdict,
                   varsS, varsP, varsC, varsT>>

\* lines 251-256: the verdict
ShowVerdict ==
    /\ pcU = "counted"
    /\ verdict' = Verdict(my_wins, opp_wins)
    /\ pcU' = "compared"
    /\ UNCHANGED <<team1, team2, player_logs, stats1, stats2, warn1, warn2,
                   table_rows, my_wins, opp_wins, varsS, varsP, varsC, varsT>>

NextCompare == WarnEmptyTeam \/ FetchTeams \/ CompareCategories \/ ShowVerdict

SpecCompare == InitCompare /\ [][NextCompare]_vars

(***************************************************************************)
(* Season normalizer: properties                                           *)
(***************************************************************************)
\* a four-digit year, as written (no leading zero)
IsYear(x) == Len(x) = 4 /\ AllDigits(x) /\ x[1] # "0"

\* "YYYY-YY"
IsCanonicalSeason(x) ==
    /\ Len(x) = 7
    /\ x[5] = "-"
    /\ AllDigits(SubSeq(x, 1, 4))
    /\ AllDigits(SubSeq(x, 6, 7))

\* the two-digit, zero-padded rendering of k mod 100
TwoDigits(k) == <<DigitChar((k % 100) \div 10), DigitChar(k % 10)>>

\* "YYYY-YYYY"
IsYearPair(x) == Len(x) = 9 /\ x[5] = "-" /\ IsYear(SubSeq(x, 1, 4)) /\ IsYear(SubSeq(x, 6, 9))

FirstIndexOfId(rs, id) ==
    CHOOSE i \in 1..Len(rs) : rs[i].id = id /\ \A j \in 1..(i - 1) : rs[j].id # id

\* C5: search_players returns no identifier twice, keeps the first occurrence
\* of each identifier, lists every active player before every inactive one
\* and, within one activity status, lists names in ascending order; an empty
\* match list gives an empty result.
C5_SearchPlayers ==
    pcP = "searched" =>
        LET r == search_result IN
        /\ \A i, j \in 1..Len(r) : i # j => r[i].id # r[j].id
        /\ {r[i].id : i \in 1..Len(r)} = {matches[i].id : i \in 1..Len(matches)}
        /\ \A i \in 1..Len(r) : r[i] = matches[FirstIndexOfId(matches, r[i].id)]
        /\ \A i, j \in 1..Len(r) : (i < j /\ r[j].is_active) => r[i].is_active
        /\ \A i, j \in 1..Len(r) :
               (i < j /\ r[i].is_active = r[j].is_active)
                   => ~StrLess(r[j].full_name, r[i].full_name)
        /\ matches = <<>> => r = <<>>

\* a search whose matches repeat an identifier and mix active and inactive
\* players, the inactive one first
C5_Witness ==
    /\ pcP = "searched"
    /\ Len(matches) = 3
    /\ Len(search_result) = 2
    /\ ~matches[1].is_active
    /\ search_result[1].is_active
    /\ ~search_result[2].is_active

\* C9: find_player_id raises the not-found error carrying the queried name
\* when there is no match; otherwise it returns the identifier of the first
\* match whose full name equals the query case-insensitively, and the
\* identifier of the first match when none is exact.
C9_FindPlayerId ==
    pcP = "found" =>
        LET exact == {i \in 1..Len(matches) : Lower(matches[i].full_name) = Lower(query)} IN
        /\ matches = <<>> => find_result = [raised |-> "ValueError", name |-> query]
        /\ (matches # <<>> /\ exact # {}) =>
               \E i \in exact : /\ \A j \in exact : i <= j
                                /\ find_result = matches[i].id
        /\ (matches # <<>> /\ exact = {}) => find_result = matches[1].id

\* the exact match differs from the query in case only and is not the first
\* match
C9_Witness ==
    /\ pcP = "found"
    /\ Len(matches) >= 2
    /\ Lower(matches[1].full_name) # Lower(query)
    /\ matches[2].full_name # query
    /\ Lower(matches[2].full_name) = Lower(query)
    /\ matches[2].id # matches[1].id
    /\ find_result = matches[2].id

(***************************************************************************)
(* Per-player averages: properties                                         *)
(***************************************************************************)
PerGameKeys == {"PTS", "REB", "AST", "STL", "BLK", "TOV", "3PM",
                "FGM_pg", "FGA_pg", "FTM_pg", "FTA_pg"}

\* the primary provider's column behind each summary key
NbaField(key) ==
    CASE key = "3PM" -> "FG3M" [] key = "FGM_pg" -> "FGM" [] key = "FGA_pg" -> "FGA"
      [] key = "FTM_pg" -> "FTM" [] key = "FTA_pg" -> "FTA" [] OTHER -> key

\* the secondary provider's field behind each summary key
BdlField(key) ==
    CASE key = "PTS" -> "pts" [] key = "REB" -> "reb" [] key = "AST" -> "ast"
      [] key = "STL" -> "stl" [] key = "BLK" -> "blk" [] key = "TOV" -> "turnover"
      [] key = "3PM" -> "fg3m" [] key = "FGM_pg" -> "fgm" [] key = "FGA_pg" -> "fga"
      [] key = "FTM_pg" -> "ftm" [] key = "FTA_pg" -> "fta"

RECURSIVE SumFirst(_, _, _)
\* the sum of one field over rows 1..k, a missing field counting 0
SumFirst(rows, k, field) ==
    IF k = 0 THEN 0
    ELSE SumFirst(rows, k - 1, field)
            + (IF field \in DOMAIN rows[k] THEN rows[k][field] ELSE 0)

\* r is the summary of exactly the first min(w, Len(rows)) rows
IsWindowSummaryNba(r, rows, w) ==
    LET k == Min(w, Len(rows)) IN
    /\ ~IsError(r)
    /\ r["games_used"] = k
    /\ \A key \in PerGameKeys : r[key] = Frac(SumFirst(rows, k, NbaField(key)), Max(1, k))
    /\ r["FG%"] = IF SumFirst(rows, k, "FGA") = 0 THEN Zero
                  ELSE Frac(SumFirst(rows, k, "FGM"), SumFirst(rows, k, "FGA"))
    /\ r["FT%"] = IF SumFirst(rows, k, "FTA") = 0 THEN Zero
                  ELSE Frac(SumFirst(rows, k, "FTM"), SumFirst(rows, k, "FTA"))
    /\ Len(rows) = 0 => \A key \in PerGameKeys \cup {"FG%", "FT%"} : r[key] = Zero

IsWindowSummaryBdl(r, rows, w) ==
    LET k == Min(w, Len(rows)) IN
    /\ ~IsError(r)
    /\ r["games_used"] = k
    /\ \A key \in PerGameKeys : r[key] = Frac(SumFirst(rows, k, BdlField(key)), Max(1, k))
    /\ r["FG%"] = IF SumFirst(rows, k, "fga") = 0 THEN Zero
                  ELSE Frac(SumFirst(rows, k, "fgm"), SumFirst(rows, k, "fga"))
    /\ r["FT%"] = IF SumFirst(rows, k, "fta") = 0 THEN Zero
                  ELSE Frac(SumFirst(rows, k, "ftm"), SumFirst(rows, k, "fta"))
    /\ Len(rows) = 0 => \A key \in PerGameKeys \cup {"FG%", "FT%"} : r[key] = Zero

PrimaryReturned == pc = "done" /\ gl.request = "ok" /\ primary_error = NoError
FallbackReturned == pc = "done" /\ bdl_stats.kind = "ok"

\* C1: for every window size n and every row list of length L handed to the
\* averaging step, on the primary path and on the fallback path, the summary
\* has games_used = min(n, L) and its values are those of the first
\* min(n, L) rows; with L = 0 the call returns and every per-game and
\* percentage field is 0.
C1_WindowAverages ==
    /\ PrimaryReturned => IsWindowSummaryNba(result, games, n)
    /\ FallbackReturned => IsWindowSummaryBdl(result, bdl_stats.games, n)

\* a primary call whose window is shorter than the game list, with rows that
\* differ inside and outside the window
C1_Witness ==
    /\ PrimaryReturned
    /\ n = 2
    /\ Len(games) = 3
    /\ games[3] # games[1]
    /\ games[3] # games[2]
    /\ result["games_used"] = 2

\* a fallback call that received no game at all
C1_WitnessFallbackEmpty ==
    /\ FallbackReturned
    /\ n >= 1
    /\ bdl_stats.games = <<>>
    /\ result["games_used"] = 0

PrimaryFailed == primary_error # NoError

\* C6: when the primary path fails at any step and a display name was given,
\* the call's outcome is the outcome of _bdl_last_n_averages on its own for
\* (name, season, n); the secondary provider is contacted only after the
\* primary has failed; without a display name the secondary provider is
\* never contacted and the primary error itself is raised.
C6_FallbackOnly ==
    /\ (pc = "done" /\ PrimaryFailed /\ Truthy(full_name)) =>
           result = _bdl_last_n_averages(full_name, season, n, bdl_players, bdl_stats)
    /\ (\E i \in 1..Len(contacted) : contacted[i] # "nba") =>
           /\ PrimaryFailed
           /\ Truthy(full_name)
           /\ contacted[1] = "nba"
    /\ (pc = "done" /\ PrimaryFailed /\ ~Truthy(full_name)) =>
           /\ result = primary_error
           /\ contacted = <<"nba">>
           /\ bdl_players = NotAsked
           /\ bdl_stats = NotAsked

\* the primary path failed while averaging rows it had already extracted,
\* and the fallback returned games
C6_Witness ==
    /\ pc = "done"
    /\ primary_error = KeyError
    /\ games # <<>>
    /\ Truthy(full_name)
    /\ bdl_stats.kind = "ok"
    /\ Len(bdl_stats.games) >= 2
    /\ ~IsError(result)
    /\ contacted = <<"nba", "bdl_players", "bdl_stats">>

(***************************************************************************)
(* Game-log row extraction: properties                                     *)
(***************************************************************************)
ExtractionOver == gl.request = "ok" /\ (pc \in {"average", "done"} \/ primary_error = ParseFailure)

\* C10: the shapes are tried in the order normalized mapping, raw envelope,
\* tabular representation, and the rows returned are those of the first
\* shape in that order that holds non-empty rows; a shape without rows does
\* not stop a later shape that holds rows from being used.
C10_FirstShapeWithRows ==
    ExtractionOver =>
        /\ \E k \in 1..3 : tried = SubSeq(<<"normalized", "raw", "frames">>, 1, k)
        /\ IF gl.nd.kind = "list" /\ gl.nd.rows # <<>>
              THEN games = gl.nd.rows /\ primary_error # ParseFailure
           ELSE IF TryRaw(gl).yields
              THEN games = TryRaw(gl).rows /\ primary_error # ParseFailure
           ELSE IF gl.df.kind = "frame" /\ gl.df.rows # <<>>
              THEN games = gl.df.rows /\ primary_error # ParseFailure
           ELSE TRUE

\* no shape of the response holds a row: each is absent, empty or raising
NoShapeHoldsRows ==
    /\ ~(gl.nd.kind = "list" /\ gl.nd.rows # <<>>)
    /\ ~TryRaw(gl).yields
    /\ ~(gl.df.kind = "frame" /\ gl.df.rows # <<>>)

\* C11: once the extraction is over, it has raised the parse error exactly
\* when none of the normalized mapping, the raw envelope and the tabular
\* representation holds rows; in that case no empty row list is returned.
C11_ParseErrorWhenNoRows ==
    ExtractionOver => (primary_error = ParseFailure <=> NoShapeHoldsRows)

(***************************************************************************)
(* Percentages: properties                                                 *)
(***************************************************************************)
One == <<1, 1>>
PlayerCalls == {"last_n_averages", "_last_n_averages_by_id"}
TeamCalls == {"compute_team_stats", "compute_team_stats_cached"}

PlayerSummaryReturned == pc = "done" /\ call \in PlayerCalls /\ ~IsError(result)
TeamReturned == pc = "done" /\ call \in TeamCalls

\* the division was defined, the value is not negative, and it is 0 when the
\* attempts are 0
PctGuarded(makes, attempts, pct) ==
    /\ pct[2] > 0
    /\ FLeq(Zero, pct)
    /\ attempts = Zero => pct = Zero

\* C2 as stated: every FG% and FT% of a player summary (either provider) and
\* of a team summary lies in [0, 1], is 0 whenever the summed attempts are 0,
\* and no division by zero occurs.
C2_PercentagesInUnitInterval ==
    /\ PlayerSummaryReturned =>
        /\ PctGuarded(result["FGM_pg"], result["FGA_pg"], result["FG%"])
        /\ PctGuarded(result["FTM_pg"], result["FTA_pg"], result["FT%"])
        /\ FLeq(result["FG%"], One)
        /\ FLeq(result["FT%"], One)
    /\ TeamReturned =>
        /\ PctGuarded(totals["FGM_pg"], totals["FGA_pg"], team_out["FG%"])
        /\ PctGuarded(totals["FTM_pg"], totals["FTA_pg"], team_out["FT%"])
        /\ FLeq(team_out["FG%"], One)
        /\ FLeq(team_out["FT%"], One)

\* C2 amended: every FG% and FT% is at least 0, is 0 whenever the summed
\* attempts are 0 whatever the makes, comes from no division by zero, and is
\* at most 1 whenever the summed makes do not exceed the summed attempts.
C2_PercentagesGuarded ==
    /\ PlayerSummaryReturned =>
        /\ PctGuarded(result["FGM_pg"], result["FGA_pg"], result["FG%"])
        /\ PctGuarded(result["FTM_pg"], result["FTA_pg"], result["FT%"])
        /\ FLeq(result["FGM_pg"], result["FGA_pg"]) => FLeq(result["FG%"], One)
        /\ FLeq(result["FTM_pg"], result["FTA_pg"]) => FLeq(result["FT%"], One)
    /\ TeamReturned =>
        /\ PctGuarded(totals["FGM_pg"], totals["FGA_pg"], team_out["FG%"])
        /\ PctGuarded(totals["FTM_pg"], totals["FTA_pg"], team_out["FT%"])
        /\ FLeq(totals["FGM_pg"], totals["FGA_pg"]) => FLeq(team_out["FG%"], One)
        /\ FLeq(totals["FTM_pg"], totals["FTA_pg"]) => FLeq(team_out["FT%"], One)

\* a team summary whose pooled field-goal attempts are 0 while the pooled
\* makes are not
C2_Witness ==
    /\ TeamReturned
    /\ totals["FGA_pg"] = Zero
    /\ totals["FGM_pg"] # Zero
    /\ team_out["FG%"] = Zero
    /\ totals["FTA_pg"] # Zero

(***************************************************************************)
(* Team aggregation: properties                                            *)
(***************************************************************************)
RECURSIVE PlayerAverages(_)
\* what the requests of roster entries 1..i come to, entry by entry
PlayerAverages(i) ==
    IF i = 0 THEN <<>>
    ELSE Append(PlayerAverages(i - 1),
                PlayerAverage(responses[i], season, n, roster[i][2]))

RECURSIVE SumIncluded(_, _, _)
\* the sum of one summary key over the included players among entries 1..i
SumIncluded(avgs, i, key) ==
    IF i = 0 THEN Zero
    ELSE IF IsError(avgs[i]) THEN SumIncluded(avgs, i - 1, key)
    ELSE FAdd(SumIncluded(avgs, i - 1, key), avgs[i][key])

IncludedCount(avgs) == Cardinality({i \in 1..Len(avgs) : ~IsError(avgs[i])})

\* the arithmetic mean of the included players' own percentages
MeanOfPct(avgs, key) == FDiv(SumIncluded(avgs, Len(avgs), key), FloatOf(IncludedCount(avgs)))

CountingKeys == {"PTS", "REB", "AST", "STL", "BLK", "TOV", "3PM"}

\* C3: the team FG% is the sum of the included players' FGM_pg divided by the
\* sum of their FGA_pg (0 when that sum is 0), FT% likewise from FTM_pg and
\* FTA_pg, and every counting stat is the plain sum of their per-game values.
C3_PooledPercentages ==
    TeamReturned =>
        LET last == Len(roster)
            avgs == PlayerAverages(last)
            fgm  == SumIncluded(avgs, last, "FGM_pg")
            fga  == SumIncluded(avgs, last, "FGA_pg")
            ftm  == SumIncluded(avgs, last, "FTM_pg")
            fta  == SumIncluded(avgs, last, "FTA_pg")
        IN
        /\ DOMAIN team_out = CountingKeys \cup {"FG%", "FT%"}
        /\ team_out["FG%"] = IF fga = Zero THEN Zero ELSE FDiv(fgm, fga)
        /\ team_out["FT%"] = IF fta = Zero THEN Zero ELSE FDiv(ftm, fta)
        /\ \A k \in CountingKeys : team_out[k] = SumIncluded(avgs, last, k)

\* two included players whose pooled FG% differs from the mean of their FG%
C3_Witness ==
    /\ TeamReturned
    /\ Len(roster) = 2
    /\ LET avgs == PlayerAverages(2) IN
       /\ IncludedCount(avgs) = 2
       /\ team_out["FG%"] # MeanOfPct(avgs, "FG%")
    /\ team_out["FG%"] # Zero

RECURSIVE KeptPositions(_, _)
\* the positions 1..i of the roster whose player did not fail, in order
KeptPositions(avgs, i) ==
    IF i = 0 THEN <<>>
    ELSE IF IsError(avgs[i]) THEN KeptPositions(avgs, i - 1)
    ELSE Append(KeptPositions(avgs, i - 1), i)

RECURSIVE ExpectedWarnings(_, _)
\* one warning per failed player among entries 1..i, in roster order
ExpectedWarnings(avgs, i) ==
    IF i = 0 THEN <<>>
    ELSE IF IsError(avgs[i])
         THEN Append(ExpectedWarnings(avgs, i - 1), [name |-> roster[i][2], error |-> avgs[i]])
         ELSE ExpectedWarnings(avgs, i - 1)

RECURSIVE Pick(_, _, _)
\* the entries of q at the first i positions of kept
Pick(q, kept, i) == IF i = 0 THEN <<>> ELSE Append(Pick(q, kept, i - 1), q[kept[i]])

\* C7: a failing player never fails the aggregation: the summary returned is
\* the aggregation of the roster with the failed players removed, and the UI
\* variant records exactly one warning naming the player per failed player,
\* in roster order, and none for a player that succeeded.
C7_FailedPlayersSkipped ==
    TeamReturned =>
        LET last == Len(roster)
            avgs == PlayerAverages(last)
            kept == KeptPositions(avgs, last)
            kept_roster == Pick(roster, kept, Len(kept))
            kept_responses == Pick(responses, kept, Len(kept))
        IN  /\ ~IsError(team_out)
            /\ team_out = compute_team_stats(kept_roster, season, n, kept_responses)
            /\ \A k \in TotalKeys : totals[k] = SumIncluded(avgs, last, k)
            /\ call = "compute_team_stats_cached" =>
                   warnings = ExpectedWarnings(avgs, last)
            /\ call = "compute_team_stats" => warnings = <<>>

\* the UI variant met a failed player first and a player with games second
C7_Witness ==
    /\ TeamReturned
    /\ call = "compute_team_stats_cached"
    /\ Len(roster) = 2
    /\ IsError(PlayerAverage(responses[1], season, n, roster[1][2]))
    /\ ~IsError(PlayerAverage(responses[2], season, n, roster[2][2]))
    /\ Len(warnings) = 1
    /\ warnings[1].name = roster[1][2]
    /\ team_out["PTS"] # Zero

RECURSIVE PrimaryOutcomes(_)
\* what the primary path alone comes to for roster entries 1..i
PrimaryOutcomes(i) ==
    IF i = 0 THEN <<>>
    ELSE Append(PrimaryOutcomes(i - 1), PrimaryOutcome(responses[i], n))

\* what the fallback gives for roster entry i when called with the entry's name
FallbackFor(i) ==
    _bdl_last_n_averages(roster[i][2], season, n, BdlPlayersAnswer, BdlStatsAnswer)

\* C12: in both team aggregations the requests made for the roster entries
\* go to the primary provider only, never to the secondary provider; the
\* totals hold the primary results only, so an entry whose primary
\* path fails adds nothing, whatever the fallback would give for its name,
\* and is reported as failed with the primary error in the UI variant.
C12_TeamNeverUsesFallback ==
    TeamReturned =>
        LET last == Len(roster)
            primary == PrimaryOutcomes(last)
        IN
        /\ \A i \in 1..Len(contacted) : contacted[i] = "nba"
        /\ \A k \in TotalKeys : totals[k] = SumIncluded(primary, last, k)
        /\ team_out = TeamOut(totals)
        /\ call = "compute_team_stats_cached" =>
               Len(warnings) = last - IncludedCount(primary)

\* the only entry of the roster carries a name, its primary request fails,
\* the fallback would return two games for that name, and the team summary
\* is all zero
C12_Witness ==
    /\ TeamReturned
    /\ Len(roster) = 1
    /\ Truthy(roster[1][2])
    /\ IsError(PrimaryOutcome(responses[1], n))
    /\ ~IsError(FallbackFor(1))
    /\ FallbackFor(1)["games_used"] = 2
    /\ FallbackFor(1)["PTS"] # Zero
    /\ contacted = <<"nba">>
    /\ team_out["PTS"] = Zero

(***************************************************************************)
(* Category comparison: properties                                         *)
(***************************************************************************)
\* C8: each of the 9 categories is classified as led by team A, by team B or
\* equal; turnovers are led by the strictly lower value, every other
\* category by the strictly higher value; the verdict names a team only when
\* it has more than half of the category wins, and is a tie otherwise.
C8_CategoryVerdict ==
    pcU = "compared" =>
        LET aWins == {i \in 1..9 : table_rows[i].Lead = "My Team"}
            bWins == {i \in 1..9 : table_rows[i].Lead = "Team of the opponent"}
        IN
        /\ Len(table_rows) = 9
        /\ \A i \in 1..9 :
            LET c == cats[i]
                v1 == stats1[c]
                v2 == stats2[c]
                lead == table_rows[i].Lead
            IN  /\ table_rows[i].Category = c
                /\ lead \in {"My Team", "Team of the opponent", "="}
                /\ IF c = "TOV"
                   THEN /\ lead = "My Team" <=> FLess(v1, v2)
                        /\ lead = "Team of the opponent" <=> FLess(v2, v1)
                   ELSE /\ lead = "My Team" <=> FLess(v2, v1)
                        /\ lead = "Team of the opponent" <=> FLess(v1, v2)
        /\ {cats[i] : i \in 1..9} = {"FG%", "FT%", "3PM", "PTS", "REB", "AST", "STL", "BLK", "TOV"}
        /\ my_wins = Cardinality(aWins)
        /\ opp_wins = Cardinality(bWins)
        /\ verdict = YouWin
               <=> 2 * Cardinality(aWins) > Cardinality(aWins) + Cardinality(bWins)
        /\ verdict = YouLose
               <=> 2 * Cardinality(bWins) > Cardinality(aWins) + Cardinality(bWins)
        /\ verdict = Tie <=> Cardinality(aWins) = Cardinality(bWins)

\* team A leads turnovers with the lower value and loses the trade
C8_Witness ==
    /\ pcU = "compared"
    /\ table_rows[9].Category = "TOV"
    /\ table_rows[9].Lead = "My Team"
    /\ FLess(stats1["TOV"], stats2["TOV"])
    /\ opp_wins > my_wins
    /\ verdict = YouLose

====
